---- MODULE Spec2Model ----
(***************************************************************************)
(* Poker engine (Kev bitmask + prime hash + equity tools): the card codec, *)
(* the 5-card evaluator with its process-wide PRIME_LOOKUP cache, the      *)
(* 7-card best-hand search and the three Monte-Carlo equity loops.         *)
(***************************************************************************)
EXTENDS Integers, Sequences, FiniteSets, TLC

(* ------------------------------------------------------------------ *)
(* Bounds of the model                                                 *)
(* ------------------------------------------------------------------ *)

\* the exhaustive 5-card runs draw their hands from the first KevDeckSize
\* cards of FULL_DECK
KevDeckSize == 26

\* the exhaustive 7-card runs draw their cards from the first BestDeckSize
\* cards of BestDeck
BestDeckSize == 12

\* evaluator calls made one after the other on the shared cache
MaxCalls == 2

\* trial counts passed to the equity functions: 1..MaxIterations
MaxIterations == 2

\* outcomes of the random shuffle that are explored per trial
ShuffleChoices == 3

(* ------------------------------------------------------------------ *)
(* Rank / prime / bit definitions                                      *)
(* ------------------------------------------------------------------ *)

RANKS == <<"2", "3", "4", "5", "6", "7", "8", "9", "10", "J", "Q", "K", "A">>

PRIMES == <<2, 3, 5, 7, 11, 13, 17, 19, 23, 29, 31, 37, 41>>

\* the four suit symbols, in FULL_DECK's order
SUITS == <<"clubs", "diamonds", "hearts", "spades">>

\* rankIndex[r]: the 0-based position of rank r in RANKS
rankIndex == [r \in {RANKS[i] : i \in 1..Len(RANKS)} |->
                (CHOOSE i \in 1..Len(RANKS) : RANKS[i] = r) - 1]

\* 0x8000, 0x4000, 0x2000, 0x1000
SUIT_MASK == [s \in {"clubs", "diamonds", "hearts", "spades"} |->
                CASE s = "clubs"    -> 32768
                  [] s = "diamonds" -> 16384
                  [] s = "hearts"   -> 8192
                  [] s = "spades"   -> 4096]

Card(r, s) == [rank |-> r, suit |-> s]

(* ------------------------------------------------------------------ *)
(* 32-bit bitwise operators on non-negative integers                   *)
(* ------------------------------------------------------------------ *)

\* a & b and a | b on one bit
AndBit(a, b) == IF a = 1 /\ b = 1 THEN 1 ELSE 0
OrBit(a, b)  == IF a = 1 \/ b = 1 THEN 1 ELSE 0

\* the same on 4-bit digits, tabulated once
AndNibble == [x \in 0..15 |-> [y \in 0..15 |->
                AndBit(x % 2, y % 2)
                + 2 * AndBit((x \div 2) % 2, (y \div 2) % 2)
                + 4 * AndBit((x \div 4) % 2, (y \div 4) % 2)
                + 8 * AndBit(x \div 8, y \div 8)]]

OrNibble == [x \in 0..15 |-> [y \in 0..15 |->
                OrBit(x % 2, y % 2)
                + 2 * OrBit((x \div 2) % 2, (y \div 2) % 2)
                + 4 * OrBit((x \div 4) % 2, (y \div 4) % 2)
                + 8 * OrBit(x \div 8, y \div 8)]]

\* a & b, eight bits at a time
RECURSIVE BitAnd(_, _)
BitAnd(a, b) ==
    IF a = 0 \/ b = 0 THEN 0
    ELSE AndNibble[a % 16][b % 16]
         + 16 * AndNibble[(a \div 16) % 16][(b \div 16) % 16]
         + 256 * BitAnd(a \div 256, b \div 256)

\* a | b, eight bits at a time
RECURSIVE BitOr(_, _)
BitOr(a, b) ==
    IF a = 0 THEN b
    ELSE IF b = 0 THEN a
    ELSE OrNibble[a % 16][b % 16]
         + 16 * OrNibble[(a \div 16) % 16][(b \div 16) % 16]
         + 256 * BitOr(a \div 256, b \div 256)

(* ------------------------------------------------------------------ *)
(* Card encoder (Kev structure)                                        *)
(* ------------------------------------------------------------------ *)

\* prime | rank | suit | (bit << 16): the four fields occupy disjoint bits,
\* computed here with BitOr as the source does
encodeCard(c) ==
    LET r     == rankIndex[c.rank]
        prime == PRIMES[r + 1]
        rank  == r * 256
        suit  == SUIT_MASK[c.suit]
        bit   == 2 ^ r
    IN  BitOr(BitOr(BitOr(prime, rank), suit), bit * 65536)

\* suits.flatMap((s) => ranks.map((r) => ({ rank: r, suit: s })))
FULL_DECK == [k \in 1..(Len(SUITS) * Len(RANKS)) |->
                Card(RANKS[((k - 1) % Len(RANKS)) + 1],
                     SUITS[((k - 1) \div Len(RANKS)) + 1])]

(* ------------------------------------------------------------------ *)
(* Straight bitmask table                                              *)
(* ------------------------------------------------------------------ *)

\* the table with the wheel pattern left out
STRAIGHTS_NoWheel == <<7936, 3968, 1984, 992, 496, 248, 124, 62, 31>>

STRAIGHTS == <<7936, 3968, 1984, 992, 496, 248, 124, 62, 31, 4111>>

isStraightMask(mask) ==
    \E k \in 1..Len(STRAIGHTS) : BitAnd(mask, STRAIGHTS[k]) = STRAIGHTS[k]

(* ------------------------------------------------------------------ *)
(* Prime product lookup table                                          *)
(* ------------------------------------------------------------------ *)

RankClasses == {"HIGH", "PAIR", "TWOPAIR", "TRIPS", "STRAIGHT", "FLUSH",
                "FULLHOUSE", "QUADS", "STRAIGHTFLUSH"}

\* new Map(): no key
EmptyLookup == [p \in {} |-> "HIGH"]

\* the keys of a counts record in ascending order, as Object.values visits
\* integer-like keys
RECURSIVE ObjectValues(_)
ObjectValues(counts) ==
    IF DOMAIN counts = {} THEN << >>
    ELSE LET k == CHOOSE x \in DOMAIN counts : \A y \in DOMAIN counts : x <= y
         IN  <<counts[k]>> \o ObjectValues([r \in DOMAIN counts \ {k} |-> counts[r]])

\* Array.prototype.sort() without a comparator: ascending by the elements'
\* string forms; the elements here are counts 1..7, single digits, whose
\* string order is their numeric order
RECURSIVE DefaultSort(_)
DefaultSort(s) ==
    IF Len(s) = 0 THEN << >>
    ELSE LET k == CHOOSE i \in 1..Len(s) :
                    /\ \A j \in 1..Len(s) : s[i] <= s[j]
                    /\ \A j \in 1..(i - 1) : s[j] # s[i]
         IN  <<s[k]>> \o DefaultSort(SubSeq(s, 1, k - 1) \o SubSeq(s, k + 1, Len(s)))

\* the switch over pattern = Object.values(counts).sort().join(',')
classifyByCounts(counts) ==
    LET pattern == DefaultSort(ObjectValues(counts))
    IN  CASE pattern = <<4, 1>>       -> "QUADS"
          [] pattern = <<3, 2>>       -> "FULLHOUSE"
          [] pattern = <<3, 1, 1>>    -> "TRIPS"
          [] pattern = <<2, 2, 1>>    -> "TWOPAIR"
          [] pattern = <<2, 1, 1, 1>> -> "PAIR"
          [] OTHER                    -> "HIGH"

(* ------------------------------------------------------------------ *)
(* 5-card Kev evaluator                                                *)
(* ------------------------------------------------------------------ *)

\* ints[k] as an operand of &, | : an index past the end reads undefined,
\* which a bitwise operator converts to 0
IntAt(ints, k) == IF k \in DOMAIN ints THEN ints[k] ELSE 0

\* counts[r] = (counts[r] || 0) + 1 over all the cards
BuildCounts(cards) ==
    LET rs == {rankIndex[cards[k].rank] : k \in DOMAIN cards}
    IN  [r \in rs |-> Cardinality({k \in DOMAIN cards : rankIndex[cards[k].rank] = r})]

\* evaluate5Kev run on `cards` with the cache holding `lookup`: the class
\* returned, the cache afterwards and whether the cache was consulted
evaluate5Kev(cards, lookup) ==
    LET ints     == [k \in DOMAIN cards |-> encodeCard(cards[k])]
        suitAND  == BitAnd(BitAnd(BitAnd(BitAnd(IntAt(ints, 1), IntAt(ints, 2)),
                        IntAt(ints, 3)), IntAt(ints, 4)), IntAt(ints, 5))
        flush    == BitAnd(suitAND, 61440) # 0
        rankMask == BitOr(BitOr(BitOr(BitOr(IntAt(ints, 1), IntAt(ints, 2)),
                        IntAt(ints, 3)), IntAt(ints, 4)), IntAt(ints, 5)) \div 65536
        straight == isStraightMask(rankMask)
        product  == BitAnd(IntAt(ints, 1), 255) * BitAnd(IntAt(ints, 2), 255)
                       * BitAnd(IntAt(ints, 3), 255) * BitAnd(IntAt(ints, 4), 255)
                       * BitAnd(IntAt(ints, 5), 255)
    IN  IF straight /\ flush THEN
            [cls |-> "STRAIGHTFLUSH", lookup |-> lookup, consulted |-> FALSE]
        ELSE IF flush THEN
            [cls |-> "FLUSH", lookup |-> lookup, consulted |-> FALSE]
        ELSE IF straight THEN
            [cls |-> "STRAIGHT", lookup |-> lookup, consulted |-> FALSE]
        ELSE IF product \in DOMAIN lookup THEN
            [cls |-> lookup[product], lookup |-> lookup, consulted |-> TRUE]
        ELSE LET cls == classifyByCounts(BuildCounts(cards))
             IN  [cls |-> cls, lookup |-> (product :> cls) @@ lookup,
                  consulted |-> TRUE]

(* ------------------------------------------------------------------ *)
(* 7-card best-hand search                                             *)
(* ------------------------------------------------------------------ *)

\* helper(s, c) of combinations: the combinations pushed to res, in order,
\* by the call and by the rest of its caller's loop from index i on
RECURSIVE helper(_, _, _, _), helperLoop(_, _, _, _)
helper(arr, k, s, c) ==
    IF Len(c) = k THEN <<c>> ELSE helperLoop(arr, k, s, c)

helperLoop(arr, k, i, c) ==
    IF i > Len(arr) THEN << >>
    ELSE helper(arr, k, i + 1, Append(c, arr[i])) \o helperLoop(arr, k, i + 1, c)

\* the enumeration started one index too far: helper(1, [])
combinationsFromOne(arr, k) == helper(arr, k, 2, << >>)

combinations(arr, k) == helper(arr, k, 1, << >>)

RANK_ORDER == <<"HIGH", "PAIR", "TWOPAIR", "TRIPS", "STRAIGHT", "FLUSH",
                "FULLHOUSE", "QUADS", "STRAIGHTFLUSH">>

\* Array.prototype.indexOf: the 0-based position of x, -1 when absent
indexOf(seq, x) ==
    IF \E k \in 1..Len(seq) : seq[k] = x
    THEN (CHOOSE k \in 1..Len(seq) : seq[k] = x /\ \A j \in 1..(k - 1) : seq[j] # x) - 1
    ELSE -1

\* the only element of a one-element set
The(S) == CHOOSE x \in S : TRUE

\* one iteration of the for-of loop of evaluate7Perfect, on combination c
BestStep(st, c) ==
    The({[best   |-> IF indexOf(RANK_ORDER, r.cls) > indexOf(RANK_ORDER, st.best)
                     THEN r.cls ELSE st.best,
          lookup |-> r.lookup]
            : r \in {evaluate5Kev(c, st.lookup)}})

\* the iterations on combinations lo..hi in order, from the loop state st;
\* the range is run as two halves, one after the other
RECURSIVE BestLoop(_, _, _, _)
BestLoop(combos, lo, hi, st) ==
    IF lo > hi THEN st
    ELSE IF lo = hi THEN BestStep(st, combos[lo])
    ELSE The({BestLoop(combos, ((lo + hi) \div 2) + 1, hi, half)
                : half \in {BestLoop(combos, lo, (lo + hi) \div 2, st)}})

\* evaluate7Perfect run on `cards` with the cache holding `lookup`: the
\* combinations it classified, the class returned and the cache afterwards
evaluate7Perfect(cards, lookup) ==
    LET combos == combinations(cards, 5)
        r      == BestLoop(combos, 1, Len(combos),
                           [best |-> "HIGH", lookup |-> lookup])
    IN  [combos |-> combos, best |-> r.best, lookup |-> r.lookup]

(* ------------------------------------------------------------------ *)
(* Decks, shuffling and comparisons of the equity functions            *)
(* ------------------------------------------------------------------ *)

\* used.some((u) => u.rank === c.rank && u.suit === c.suit)
IsUsed(used, c) ==
    \E k \in 1..Len(used) : used[k].rank = c.rank /\ used[k].suit = c.suit

\* deck.filter((c) => !used.some(...)): the cards of deck not in used, in
\* deck's order
removeUsed(deck, used) == SelectSeq(deck, LAMBDA c : ~IsUsed(used, c))

\* arr.slice(from, to) for 0 <= from and 0 <= to
Slice(arr, from, to) ==
    SubSeq(arr, from + 1, IF to < Len(arr) THEN to ELSE Len(arr))

\* [...arr].sort(() => Math.random() - 0.5): a permutation of arr that the
\* random comparator decides.  The explored outcomes are ShuffleChoices cuts
\* of arr, 11 cards apart.
Shuffles(arr) ==
    IF Len(arr) = 0 THEN {<< >>}
    ELSE {LET cut == (n * 11) % Len(arr)
          IN  SubSeq(arr, cut + 1, Len(arr)) \o SubSeq(arr, 1, cut)
            : n \in 0..(ShuffleChoices - 1)}

\* the UTF-16 code units of each RankClass string
CodeUnits(cls) ==
    CASE cls = "HIGH"          -> <<72, 73, 71, 72>>
      [] cls = "PAIR"          -> <<80, 65, 73, 82>>
      [] cls = "TWOPAIR"       -> <<84, 87, 79, 80, 65, 73, 82>>
      [] cls = "TRIPS"         -> <<84, 82, 73, 80, 83>>
      [] cls = "STRAIGHT"      -> <<83, 84, 82, 65, 73, 71, 72, 84>>
      [] cls = "FLUSH"         -> <<70, 76, 85, 83, 72>>
      [] cls = "FULLHOUSE"     -> <<70, 85, 76, 76, 72, 79, 85, 83, 69>>
      [] cls = "QUADS"         -> <<81, 85, 65, 68, 83>>
      [] cls = "STRAIGHTFLUSH" -> <<83, 84, 82, 65, 73, 71, 72, 84, 70, 76, 85, 83, 72>>

\* a > b on strings: the first differing code unit decides, and a proper
\* prefix is the smaller
RECURSIVE CodeUnitsGreater(_, _)
CodeUnitsGreater(a, b) ==
    IF Len(a) = 0 THEN FALSE
    ELSE IF Len(b) = 0 THEN TRUE
    ELSE IF Head(a) # Head(b) THEN Head(a) > Head(b)
    ELSE CodeUnitsGreater(Tail(a), Tail(b))

StringGreater(a, b) == CodeUnitsGreater(CodeUnits(a), CodeUnits(b))

\* compareRanks with its operands exchanged
compareRanksSwapped(a, b) == indexOf(RANK_ORDER, b) - indexOf(RANK_ORDER, a)

\* RANK_ORDER.indexOf(a) - RANK_ORDER.indexOf(b)
compareRanks(a, b) == indexOf(RANK_ORDER, a) - indexOf(RANK_ORDER, b)

\* Number(((count / total) * 100).toFixed(2)), in hundredths of a percent
Pct(count, total) == (2 * 10000 * count + total) \div (2 * total)

\* if (cmp > 0) heroWin++; else if (cmp < 0) villainWin++; else tie++;
\* as the increments of <<heroWin, villainWin, tie>>
HandVsHandTally(cmp) ==
    IF cmp > 0 THEN <<1, 0, 0>>
    ELSE IF cmp < 0 THEN <<0, 1, 0>>
    ELSE <<0, 0, 1>>

\* the tally of calculateHandEquity without its final else branch
HandEquityTallyNoTie(h, v) ==
    IF h > v THEN <<1, 0, 0>>
    ELSE IF h < v THEN <<0, 1, 0>>
    ELSE <<0, 0, 0>>

\* if (h > v) win++; else if (h < v) lose++; else tie++;
\* as the increments of <<win, lose, tie>>
HandEquityTally(h, v) ==
    IF h > v THEN <<1, 0, 0>>
    ELSE IF h < v THEN <<0, 1, 0>>
    ELSE <<0, 0, 1>>

\* if (heroRank === villainRank) tie++; else if (heroRank > villainRank)
\* heroWin++; else villainWin++;  with > comparing the two strings
\* as the increments of <<heroWin, villainWin, tie>>
RangeVsRangeTally(heroRank, villainRank) ==
    IF heroRank = villainRank THEN <<0, 0, 1>>
    ELSE IF StringGreater(heroRank, villainRank) THEN <<1, 0, 0>>
    ELSE <<0, 1, 0>>

(* ------------------------------------------------------------------ *)
(* State                                                               *)
(* ------------------------------------------------------------------ *)

VARIABLES
    PRIME_LOOKUP,   \* the process-wide cache: prime product -> RankClass
    pc,             \* "idle", "call", "loop" or "returned"
    op,             \* the entry point being run
    cards,          \* the argument of the evaluator call
    result,         \* the RankClass the evaluator call returned
    all,            \* evaluate7Perfect's combinations
    lookupBefore,   \* PRIME_LOOKUP when the last evaluator call was entered
    consulted,      \* whether the last evaluate5Kev call reached the cache
    calls,          \* evaluator calls made so far
    validOnly,      \* every call so far was evaluate5Kev on five distinct cards
    args,           \* the arguments of the equity call
    i,              \* the loop counter of the equity call
    heroWin, villainWin, tie, win, lose,
    trial,          \* the locals of the last loop iteration
    ret             \* the value the equity call returned

vars == <<PRIME_LOOKUP, pc, op, cards, result, all, lookupBefore, consulted,
          calls, validOnly, args, i, heroWin, villainWin, tie, win, lose,
          trial, ret>>

evalVars   == <<cards, result, all, lookupBefore, consulted, calls, validOnly>>
equityVars == <<args, i, heroWin, villainWin, tie, win, lose, trial, ret>>

NoArgs  == [iterations |-> 0]
NoTrial == [hero |-> << >>, villain |-> << >>, shuffled |-> << >>,
            fullBoard |-> << >>, heroRank |-> "none", villainRank |-> "none",
            before |-> <<0, 0, 0>>]
NoRet   == [returned |-> FALSE]

\* no equity call is running
EquityIdle ==
    /\ args = NoArgs
    /\ i = 0
    /\ heroWin = 0 /\ villainWin = 0 /\ tie = 0 /\ win = 0 /\ lose = 0
    /\ trial = NoTrial
    /\ ret = NoRet

\* no evaluator call has been made by a caller
EvalIdle ==
    /\ cards = << >>
    /\ result = "none"
    /\ all = << >>
    /\ lookupBefore = EmptyLookup
    /\ consulted = FALSE
    /\ calls = 0
    /\ validOnly = TRUE

AllDistinct(seq) == \A j, k \in 1..Len(seq) : j # k => seq[j] # seq[k]

(* ------------------------------------------------------------------ *)
(* The evaluator entry points                                          *)
(* ------------------------------------------------------------------ *)

Evaluate5KevCall ==
    /\ pc = "call"
    /\ op = "evaluate5Kev"
    /\ \E r \in {evaluate5Kev(cards, PRIME_LOOKUP)} :
           /\ result' = r.cls
           /\ PRIME_LOOKUP' = r.lookup
           /\ consulted' = r.consulted
    /\ lookupBefore' = PRIME_LOOKUP
    /\ pc' = "returned"
    /\ UNCHANGED <<op, cards, all, calls, validOnly>>
    /\ UNCHANGED equityVars

Evaluate7PerfectCall ==
    /\ pc = "call"
    /\ op = "evaluate7Perfect"
    /\ \E r \in {evaluate7Perfect(cards, PRIME_LOOKUP)} :
           /\ result' = r.best
           /\ all' = r.combos
           /\ PRIME_LOOKUP' = r.lookup
    /\ lookupBefore' = PRIME_LOOKUP
    /\ pc' = "returned"
    /\ UNCHANGED <<op, cards, consulted, calls, validOnly>>
    /\ UNCHANGED equityVars

\* exhaustive runs of evaluate5Kev: one call per hand of five distinct cards
\* of the first KevDeckSize cards of the deck, on an empty cache
InitKev ==
    /\ PRIME_LOOKUP = EmptyLookup
    /\ pc = "call"
    /\ op = "evaluate5Kev"
    /\ \E a \in 1..KevDeckSize : \E b \in (a + 1)..KevDeckSize :
       \E c \in (b + 1)..KevDeckSize : \E d \in (c + 1)..KevDeckSize :
       \E e \in (d + 1)..KevDeckSize :
          cards = <<FULL_DECK[a], FULL_DECK[b], FULL_DECK[c], FULL_DECK[d],
                    FULL_DECK[e]>>
    /\ result = "none"
    /\ all = << >>
    /\ lookupBefore = EmptyLookup
    /\ consulted = FALSE
    /\ calls = 1
    /\ validOnly = TRUE
    /\ EquityIdle

SpecKev == InitKev /\ [][Evaluate5KevCall]_vars

\* the cards of deck at the positions in S, in deck's order
RECURSIVE Pick(_, _)
Pick(deck, S) ==
    IF S = {} THEN << >>
    ELSE LET k == CHOOSE x \in S : \A y \in S : x <= y
         IN  <<deck[k]>> \o Pick(deck, S \ {k})

Clubs(r)    == Card(r, "clubs")
Diamonds(r) == Card(r, "diamonds")
Hearts(r)   == Card(r, "hearts")
Spades(r)   == Card(r, "spades")

\* the cards the exhaustive 7-card runs draw from
BestDeck == <<Clubs("2"), Clubs("3"), Clubs("4"), Clubs("5"), Clubs("6"),
              Clubs("7"), Diamonds("2"), Diamonds("3"), Hearts("4"),
              Spades("A"), Diamonds("9"), Spades("9"), Hearts("K"),
              Diamonds("6"), Hearts("8"), Clubs("9")>>

\* exhaustive runs of evaluate7Perfect: one call per choice of 5, 6 or 7 of
\* the first BestDeckSize cards of BestDeck, on an empty cache
InitBest ==
    /\ PRIME_LOOKUP = EmptyLookup
    /\ pc = "call"
    /\ op = "evaluate7Perfect"
    /\ \E S \in SUBSET (1..BestDeckSize) :
          /\ Cardinality(S) \in 5..7
          /\ cards = Pick(BestDeck, S)
    /\ result = "none"
    /\ all = << >>
    /\ lookupBefore = EmptyLookup
    /\ consulted = FALSE
    /\ calls = 1
    /\ validOnly = FALSE
    /\ EquityIdle

SpecBest == InitBest /\ [][Evaluate7PerfectCall]_vars

\* the calls made one after the other on the shared cache: hands of each
\* category, two hands with the same prime product, and hands of other
\* sizes than five
EvalInputs ==
    {[op |-> "evaluate5Kev", cards |-> h] : h \in {
        <<Clubs("2"), Diamonds("2"), Hearts("2"), Spades("2"), Clubs("5")>>,
        <<Clubs("2"), Diamonds("2"), Hearts("2"), Spades("5"), Clubs("5")>>,
        <<Clubs("2"), Diamonds("2"), Spades("2"), Hearts("5"), Diamonds("5")>>,
        <<Clubs("2"), Diamonds("2"), Hearts("2"), Spades("5"), Clubs("9")>>,
        <<Clubs("2"), Diamonds("2"), Hearts("5"), Spades("5"), Clubs("9")>>,
        <<Clubs("2"), Diamonds("2"), Hearts("5"), Spades("7"), Clubs("9")>>,
        <<Clubs("2"), Diamonds("3"), Hearts("7"), Spades("9"), Clubs("K")>>,
        <<Spades("2"), Hearts("3"), Diamonds("7"), Clubs("9"), Hearts("K")>>,
        <<Clubs("2"), Diamonds("3"), Hearts("4"), Spades("5"), Clubs("6")>>,
        <<Clubs("A"), Diamonds("2"), Hearts("3"), Spades("4"), Clubs("5")>>,
        <<Clubs("2"), Clubs("3"), Clubs("4"), Clubs("5"), Clubs("7")>>,
        <<Spades("A"), Spades("K"), Spades("Q"), Spades("J"), Spades("10")>>,
        <<Clubs("2"), Diamonds("2"), Hearts("2"), Spades("2")>>,
        <<Clubs("2"), Clubs("3"), Clubs("4"), Clubs("5")>>,
        <<Clubs("2"), Diamonds("3"), Hearts("7"), Spades("9"), Clubs("K"),
          Diamonds("K")>>}}
    \cup
    {[op |-> "evaluate7Perfect", cards |-> h] : h \in {
        <<Spades("A"), Spades("K"), Spades("Q"), Spades("J"), Spades("10"),
          Clubs("2"), Diamonds("3")>>,
        <<Clubs("2"), Diamonds("2"), Hearts("2"), Spades("5"), Clubs("5"),
          Diamonds("9")>>,
        <<Clubs("2"), Diamonds("2"), Hearts("2"), Spades("2")>>,
        << >>}}

\* process start: the cache is empty and nothing has been called
Init ==
    /\ PRIME_LOOKUP = EmptyLookup
    /\ pc = "idle"
    /\ op = "none"
    /\ EvalIdle
    /\ EquityIdle

\* a caller passes the next hand to one of the two evaluators
Invoke ==
    /\ pc \in {"idle", "returned"}
    /\ calls < MaxCalls
    /\ \E in \in EvalInputs :
          /\ op' = in.op
          /\ cards' = in.cards
          /\ validOnly' = (validOnly /\ in.op = "evaluate5Kev"
                              /\ Len(in.cards) = 5 /\ AllDistinct(in.cards))
    /\ calls' = calls + 1
    /\ pc' = "call"
    /\ result' = "none"
    /\ all' = << >>
    /\ UNCHANGED <<PRIME_LOOKUP, lookupBefore, consulted>>
    /\ UNCHANGED equityVars

Next == Invoke \/ Evaluate5KevCall \/ Evaluate7PerfectCall

Spec == Init /\ [][Next]_vars

(* ------------------------------------------------------------------ *)
(* The equity entry points                                             *)
(* ------------------------------------------------------------------ *)

\* calculateHandVsHandEquity(heroHole, villainHole, board, iterations):
\* full boards won by either side and tied, a flop, and holdings that share
\* a card
HandVsHandCalls ==
    {[heroHole    |-> <<Clubs("2"), Clubs("3")>>,
      villainHole |-> <<Diamonds("2"), Hearts("4")>>,
      board       |-> <<Clubs("5"), Clubs("7"), Clubs("9"), Diamonds("K"), Hearts("Q")>>],
     [heroHole    |-> <<Diamonds("2"), Hearts("4")>>,
      villainHole |-> <<Clubs("2"), Clubs("3")>>,
      board       |-> <<Clubs("5"), Clubs("7"), Clubs("9"), Diamonds("K"), Hearts("Q")>>],
     [heroHole    |-> <<Clubs("2"), Diamonds("3")>>,
      villainHole |-> <<Diamonds("2"), Clubs("3")>>,
      board       |-> <<Hearts("7"), Spades("9"), Clubs("K"), Diamonds("Q"), Hearts("5")>>],
     [heroHole    |-> <<Clubs("A"), Clubs("K")>>,
      villainHole |-> <<Spades("9"), Hearts("9")>>,
      board       |-> <<Clubs("Q"), Clubs("J"), Diamonds("4")>>],
     [heroHole    |-> <<Spades("A"), Spades("K")>>,
      villainHole |-> <<Spades("A"), Spades("Q")>>,
      board       |-> <<Clubs("5"), Clubs("7"), Clubs("9"), Diamonds("K"), Hearts("Q")>>],
     [heroHole    |-> <<Spades("A"), Spades("K")>>,
      villainHole |-> <<Spades("A"), Spades("Q")>>,
      board       |-> << >>]}

\* calculateHandEquity(heroHole, board, iterations): full boards, a flop,
\* and a board that holds one of hero's cards
HandEquityCalls ==
    {[heroHole |-> <<Clubs("2"), Clubs("3")>>,
      board    |-> <<Clubs("5"), Clubs("7"), Clubs("9"), Diamonds("K"), Hearts("Q")>>],
     [heroHole |-> <<Diamonds("2"), Hearts("4")>>,
      board    |-> <<Clubs("5"), Clubs("7"), Clubs("9"), Diamonds("K"), Hearts("Q")>>],
     [heroHole |-> <<Clubs("A"), Clubs("K")>>,
      board    |-> <<Clubs("Q"), Clubs("J"), Diamonds("4")>>],
     [heroHole |-> <<Clubs("2"), Clubs("3")>>,
      board    |-> <<Clubs("2"), Diamonds("7"), Hearts("9")>>]}

\* equityRangeVsRange(heroRange, villainRange, board, deck, iterations) on
\* the full deck: a full board and a flop
RangeVsRangeCalls ==
    {[heroRange    |-> << <<Clubs("2"), Clubs("3")>>, <<Spades("A"), Spades("K")>> >>,
      villainRange |-> << <<Diamonds("2"), Hearts("4")>>, <<Spades("A"), Spades("Q")>> >>,
      board        |-> <<Clubs("5"), Clubs("7"), Clubs("9"), Diamonds("K"), Hearts("Q")>>,
      deck         |-> FULL_DECK],
     [heroRange    |-> << <<Clubs("A"), Clubs("K")>> >>,
      villainRange |-> << <<Spades("9"), Hearts("9")>>, <<Clubs("10"), Diamonds("9")>> >>,
      board        |-> <<Clubs("Q"), Clubs("J"), Diamonds("4")>>,
      deck         |-> FULL_DECK]}

\* an equity function has been called with a positive trial count; its
\* counters are zero and the cache is empty
InitEquity ==
    /\ PRIME_LOOKUP = EmptyLookup
    /\ pc = "loop"
    /\ \E n \in 1..MaxIterations :
          \/ \E c \in HandVsHandCalls :
                op = "calculateHandVsHandEquity" /\ args = c @@ [iterations |-> n]
          \/ \E c \in HandEquityCalls :
                op = "calculateHandEquity" /\ args = c @@ [iterations |-> n]
          \/ \E c \in RangeVsRangeCalls :
                op = "equityRangeVsRange" /\ args = c @@ [iterations |-> n]
    /\ i = 0
    /\ heroWin = 0 /\ villainWin = 0 /\ tie = 0 /\ win = 0 /\ lose = 0
    /\ trial = NoTrial
    /\ ret = NoRet
    /\ EvalIdle

\* one iteration of calculateHandVsHandEquity's loop
HandVsHandTrial ==
    /\ pc = "loop"
    /\ op = "calculateHandVsHandEquity"
    /\ i < args.iterations
    /\ \E shuffled \in Shuffles(removeUsed(FULL_DECK,
                            args.heroHole \o args.villainHole \o args.board)) :
       \E fullBoard \in {args.board \o Slice(shuffled, 0, 5 - Len(args.board))} :
       \E h \in {evaluate7Perfect(args.heroHole \o fullBoard, PRIME_LOOKUP)} :
       \E v \in {evaluate7Perfect(args.villainHole \o fullBoard, h.lookup)} :
       \E t \in {HandVsHandTally(compareRanks(h.best, v.best))} :
          /\ heroWin' = heroWin + t[1]
          /\ villainWin' = villainWin + t[2]
          /\ tie' = tie + t[3]
          /\ PRIME_LOOKUP' = v.lookup
          /\ trial' = [hero |-> args.heroHole, villain |-> args.villainHole,
                       shuffled |-> shuffled, fullBoard |-> fullBoard,
                       heroRank |-> h.best, villainRank |-> v.best,
                       before |-> <<heroWin, villainWin, tie>>]
    /\ i' = i + 1
    /\ UNCHANGED <<pc, op, args, win, lose, ret>>
    /\ UNCHANGED evalVars

\* calculateHandVsHandEquity leaves its loop and returns
HandVsHandReturn ==
    /\ pc = "loop"
    /\ op = "calculateHandVsHandEquity"
    /\ ~(i < args.iterations)
    /\ ret' = [returned |-> TRUE, heroWin |-> heroWin, villainWin |-> villainWin,
               tie |-> tie,
               heroPct |-> Pct(heroWin, heroWin + villainWin + tie),
               villainPct |-> Pct(villainWin, heroWin + villainWin + tie),
               tiePct |-> Pct(tie, heroWin + villainWin + tie)]
    /\ pc' = "returned"
    /\ UNCHANGED <<PRIME_LOOKUP, op, args, i, heroWin, villainWin, tie, win,
                   lose, trial>>
    /\ UNCHANGED evalVars

\* one iteration of calculateHandEquity's loop
HandEquityTrial ==
    /\ pc = "loop"
    /\ op = "calculateHandEquity"
    /\ i < args.iterations
    /\ \E shuffled \in Shuffles(removeUsed(FULL_DECK, args.heroHole \o args.board)) :
       \E villainHole \in {<<shuffled[1], shuffled[2]>>} :
       \E fullBoard \in {args.board \o Slice(shuffled, 2, 2 + (5 - Len(args.board)))} :
       \E h \in {evaluate7Perfect(args.heroHole \o fullBoard, PRIME_LOOKUP)} :
       \E v \in {evaluate7Perfect(villainHole \o fullBoard, h.lookup)} :
       \E t \in {HandEquityTally(indexOf(RANK_ORDER, h.best),
                                 indexOf(RANK_ORDER, v.best))} :
          /\ win' = win + t[1]
          /\ lose' = lose + t[2]
          /\ tie' = tie + t[3]
          /\ PRIME_LOOKUP' = v.lookup
          /\ trial' = [hero |-> args.heroHole, villain |-> villainHole,
                       shuffled |-> shuffled, fullBoard |-> fullBoard,
                       heroRank |-> h.best, villainRank |-> v.best,
                       before |-> <<win, lose, tie>>]
    /\ i' = i + 1
    /\ UNCHANGED <<pc, op, args, heroWin, villainWin, ret>>
    /\ UNCHANGED evalVars

\* calculateHandEquity leaves its loop and returns
HandEquityReturn ==
    /\ pc = "loop"
    /\ op = "calculateHandEquity"
    /\ ~(i < args.iterations)
    /\ ret' = [returned |-> TRUE, win |-> win, lose |-> lose, tie |-> tie,
               winPct |-> Pct(win, win + lose + tie),
               losePct |-> Pct(lose, win + lose + tie),
               tiePct |-> Pct(tie, win + lose + tie)]
    /\ pc' = "returned"
    /\ UNCHANGED <<PRIME_LOOKUP, op, args, i, heroWin, villainWin, tie, win,
                   lose, trial>>
    /\ UNCHANGED evalVars

\* one iteration of equityRangeVsRange's loop; Math.floor(Math.random() *
\* range.length) is any index of the range
RangeVsRangeTrial ==
    /\ pc = "loop"
    /\ op = "equityRangeVsRange"
    /\ i < args.iterations
    /\ \E hk \in 1..Len(args.heroRange) : \E vk \in 1..Len(args.villainRange) :
       \E hero \in {args.heroRange[hk]} : \E villain \in {args.villainRange[vk]} :
       \E shuffled \in Shuffles(removeUsed(args.deck, hero \o villain \o args.board)) :
       \E fullBoard \in {args.board \o Slice(shuffled, 0, 5 - Len(args.board))} :
       \E h \in {evaluate7Perfect(hero \o fullBoard, PRIME_LOOKUP)} :
       \E v \in {evaluate7Perfect(villain \o fullBoard, h.lookup)} :
       \E t \in {RangeVsRangeTally(h.best, v.best)} :
          /\ heroWin' = heroWin + t[1]
          /\ villainWin' = villainWin + t[2]
          /\ tie' = tie + t[3]
          /\ PRIME_LOOKUP' = v.lookup
          /\ trial' = [hero |-> hero, villain |-> villain,
                       shuffled |-> shuffled, fullBoard |-> fullBoard,
                       heroRank |-> h.best, villainRank |-> v.best,
                       before |-> <<heroWin, villainWin, tie>>]
    /\ i' = i + 1
    /\ UNCHANGED <<pc, op, args, win, lose, ret>>
    /\ UNCHANGED evalVars

\* equityRangeVsRange leaves its loop and returns
RangeVsRangeReturn ==
    /\ pc = "loop"
    /\ op = "equityRangeVsRange"
    /\ ~(i < args.iterations)
    /\ ret' = [returned |-> TRUE, heroWin |-> heroWin, villainWin |-> villainWin,
               tie |-> tie]
    /\ pc' = "returned"
    /\ UNCHANGED <<PRIME_LOOKUP, op, args, i, heroWin, villainWin, tie, win,
                   lose, trial>>
    /\ UNCHANGED evalVars

NextEquity ==
    \/ HandVsHandTrial \/ HandVsHandReturn
    \/ HandEquityTrial \/ HandEquityReturn
    \/ RangeVsRangeTrial \/ RangeVsRangeReturn

SpecEquity == InitEquity /\ [][NextEquity]_vars

(* ------------------------------------------------------------------ *)
(* Properties of evaluate5Kev on hands of five distinct cards          *)
(* ------------------------------------------------------------------ *)

RankSet(hand) == {rankIndex[hand[k].rank] : k \in 1..Len(hand)}

SameSuit(hand) == \A j, k \in 1..Len(hand) : hand[j].suit = hand[k].suit

\* five consecutive ranks, or the wheel A-2-3-4-5
IsRun(hand) ==
    \/ \E lo \in 0..8 : RankSet(hand) = lo..(lo + 4)
    \/ RankSet(hand) = {12, 0, 1, 2, 3}

ValidFive(hand) == Len(hand) = 5 /\ AllDistinct(hand)

Returned5 == pc = "returned" /\ op = "evaluate5Kev"

\* C2: on five distinct cards evaluate5Kev returns STRAIGHTFLUSH exactly when
\* the cards share a suit and their ranks are a run (five consecutive ranks
\* or the wheel), FLUSH exactly when they share a suit and are no run, and
\* STRAIGHT exactly when they are a run and do not share a suit.
C2_StraightAndFlushClasses ==
    (Returned5 /\ ValidFive(cards)) =>
        /\ (result = "STRAIGHTFLUSH") <=> (SameSuit(cards) /\ IsRun(cards))
        /\ (result = "FLUSH") <=> (SameSuit(cards) /\ ~IsRun(cards))
        /\ (result = "STRAIGHT") <=> (IsRun(cards) /\ ~SameSuit(cards))

\* the wheel in two suits has been classified as a straight
C2_Witness ==
    /\ Returned5 /\ ValidFive(cards)
    /\ RankSet(cards) = {12, 0, 1, 2, 3}
    /\ ~SameSuit(cards)
    /\ result = "STRAIGHT"

(* ------------------------------------------------------------------ *)
(* Properties of evaluate7Perfect                                      *)
(* ------------------------------------------------------------------ *)

\* the position of a category in the order High Card < One Pair < Two Pair
\* < Three of a Kind < Straight < Flush < Full House < Four of a Kind
\* < Straight Flush
CategoryRank(cls) ==
    CASE cls = "HIGH"          -> 0
      [] cls = "PAIR"          -> 1
      [] cls = "TWOPAIR"       -> 2
      [] cls = "TRIPS"         -> 3
      [] cls = "STRAIGHT"      -> 4
      [] cls = "FLUSH"         -> 5
      [] cls = "FULLHOUSE"     -> 6
      [] cls = "QUADS"         -> 7
      [] cls = "STRAIGHTFLUSH" -> 8
      [] OTHER                 -> -1

\* the 5-card subsets of a hand, each as the cards in the hand's order
FiveSubsets(hand) ==
    {Pick(hand, S) : S \in {T \in SUBSET (1..Len(hand)) : Cardinality(T) = 5}}

Returned7 == pc = "returned" /\ op = "evaluate7Perfect"

\* C3: on 5, 6 or 7 distinct cards evaluate7Perfect classifies every 5-card
\* subset exactly once (1, 6 or 21 of them) and returns the highest of their
\* categories: no subset's category is above the result and some subset's
\* category is the result.
C3_BestOfAllFiveSubsets ==
    (Returned7 /\ Len(cards) \in 5..7 /\ AllDistinct(cards)) =>
        /\ Len(all) = (CASE Len(cards) = 5 -> 1 [] Len(cards) = 6 -> 6
                         [] Len(cards) = 7 -> 21)
        /\ {all[k] : k \in 1..Len(all)} = FiveSubsets(cards)
        /\ \A h \in FiveSubsets(cards) :
              CategoryRank(result)
                 >= CategoryRank(evaluate5Kev(h, EmptyLookup).cls)
        /\ \E h \in FiveSubsets(cards) :
              result = evaluate5Kev(h, EmptyLookup).cls

\* seven cards whose best subset is a flush although other subsets are not
C3_Witness ==
    /\ Returned7 /\ Len(cards) = 7 /\ AllDistinct(cards)
    /\ Len(all) = 21
    /\ result = "FLUSH"
    /\ \E k \in 1..Len(all) : evaluate5Kev(all[k], EmptyLookup).cls = "HIGH"

(* ------------------------------------------------------------------ *)
(* Properties of the count patterns, the hand size and the cache       *)
(* ------------------------------------------------------------------ *)

\* the category that a multiset of rank counts stands for: `most` cards of
\* the commonest rank among `distinct` ranks
PatternCategory(most, distinct) ==
    CASE most = 4                 -> "QUADS"
      [] most = 3 /\ distinct = 2 -> "FULLHOUSE"
      [] most = 3 /\ distinct = 3 -> "TRIPS"
      [] most = 2 /\ distinct = 3 -> "TWOPAIR"
      [] most = 2 /\ distinct = 4 -> "PAIR"
      [] OTHER                    -> "HIGH"

CountOfRank(hand, r) == Cardinality({k \in 1..Len(hand) : rankIndex[hand[k].rank] = r})

HandCategory(hand) ==
    PatternCategory(
        CHOOSE n \in 1..Len(hand) :
            /\ \E r \in RankSet(hand) : CountOfRank(hand, r) = n
            /\ \A r \in RankSet(hand) : CountOfRank(hand, r) <= n,
        Cardinality(RankSet(hand)))

\* C1: on five distinct cards that are neither a flush nor a straight,
\* evaluate5Kev returns the category of the rank-count pattern (4,1 Four of a
\* Kind; 3,2 Full House; 3,1,1 Three of a Kind; 2,2,1 Two Pair; 2,1,1,1 One
\* Pair; five ranks High Card), on a cache miss and on a cache hit alike.
C1_CountPatternCategory ==
    (Returned5 /\ ValidFive(cards) /\ ~SameSuit(cards) /\ ~IsRun(cards)) =>
        result = HandCategory(cards)

\* C8: a hand of the wrong size never yields a category: evaluate5Kev on
\* other than five cards and evaluate7Perfect on fewer than five cards do
\* not return a RankClass.
C8_WrongSizeYieldsNoCategory ==
    /\ (Returned5 /\ Len(cards) # 5) => result \notin RankClasses
    /\ (Returned7 /\ Len(cards) < 5) => result \notin RankClasses

\* how many times the prime q divides p
RECURSIVE Exponent(_, _)
Exponent(p, q) == IF p > 0 /\ p % q = 0 THEN 1 + Exponent(p \div q, q) ELSE 0

\* the category of the rank counts that a prime product of five cards stands
\* for: each rank's count is the exponent of its prime
ProductCategory(p) ==
    LET e == [k \in 1..Len(PRIMES) |-> Exponent(p, PRIMES[k])]
    IN  PatternCategory(
            CHOOSE n \in 0..5 : (\E k \in 1..Len(PRIMES) : e[k] = n)
                                /\ (\A k \in 1..Len(PRIMES) : e[k] <= n),
            Cardinality({k \in 1..Len(PRIMES) : e[k] > 0}))

\* C9: after any sequence of evaluate5Kev calls on hands of five distinct
\* cards the cache is a transparent memo: (1) the last call kept every entry
\* it found, unchanged; (2) every entry maps a prime product to the category
\* of the rank counts the product stands for; (3) a call that returned
\* Straight, Flush or Straight Flush neither consulted nor changed the cache;
\* (4) the call returned what it returns on an empty cache.
C9_CacheIsTransparentMemo ==
    (Returned5 /\ validOnly) =>
        /\ \A p \in DOMAIN lookupBefore :
              p \in DOMAIN PRIME_LOOKUP /\ PRIME_LOOKUP[p] = lookupBefore[p]
        /\ \A p \in DOMAIN PRIME_LOOKUP : PRIME_LOOKUP[p] = ProductCategory(p)
        /\ result \in {"STRAIGHT", "FLUSH", "STRAIGHTFLUSH"} =>
              (~consulted /\ PRIME_LOOKUP = lookupBefore)
        /\ result = evaluate5Kev(cards, EmptyLookup).cls

(* ------------------------------------------------------------------ *)
(* Properties of the equity entry points                               *)
(* ------------------------------------------------------------------ *)

EquityOps == {"calculateHandVsHandEquity", "calculateHandEquity",
              "equityRangeVsRange"}

\* the three counters of the running call, the hero/win counter first
Counters ==
    IF op = "calculateHandEquity" THEN <<win, lose, tie>>
    ELSE <<heroWin, villainWin, tie>>

\* what the last trial added to each counter
LastIncrement == [k \in 1..3 |-> Counters[k] - trial.before[k]]

\* at least one trial of an equity call has run
TrialRan == op \in EquityOps /\ i > 0

\* the increment the nine-category order prescribes for two categories
OrderIncrement(heroRank, villainRank) ==
    IF CategoryRank(heroRank) > CategoryRank(villainRank) THEN <<1, 0, 0>>
    ELSE IF CategoryRank(heroRank) < CategoryRank(villainRank) THEN <<0, 1, 0>>
    ELSE <<0, 0, 1>>

\* C4: in every trial of every equity entry point the hero/win counter grows
\* exactly when hero's category is higher in the nine-category order, the
\* villain/lose counter exactly when it is lower, and the tie counter
\* exactly when the two categories are equal.
C4_CategoryOrderDecidesCounter ==
    TrialRan => LastIncrement = OrderIncrement(trial.heroRank, trial.villainRank)

\* C5: after the k-th trial exactly one counter has grown by one and the
\* three counters sum to k; on return they sum to the trial count N, in the
\* counters and in the returned result.
C5_CountersSumToTrials ==
    op \in EquityOps =>
        /\ Counters[1] + Counters[2] + Counters[3] = i
        /\ i > 0 => LastIncrement \in {<<1, 0, 0>>, <<0, 1, 0>>, <<0, 0, 1>>}
        /\ pc = "returned" =>
              /\ i = args.iterations
              /\ ret.returned
              /\ IF op = "calculateHandEquity"
                 THEN ret.win + ret.lose + ret.tie = args.iterations
                 ELSE ret.heroWin + ret.villainWin + ret.tie = args.iterations

\* a call has returned after several trials that are spread over two
\* counters
C5_Witness ==
    /\ op = "equityRangeVsRange"
    /\ pc = "returned"
    /\ args.iterations = MaxIterations
    /\ villainWin > 0 /\ tie > 0
    /\ ret.heroWin + ret.villainWin + ret.tie = MaxIterations

\* calculateHandVsHandEquity runs on two holdings and a full board, nine
\* pairwise distinct cards
FullBoardCall ==
    /\ op = "calculateHandVsHandEquity"
    /\ Len(args.board) = 5
    /\ AllDistinct(args.heroHole \o args.villainHole \o args.board)

\* the outcome of the showdown of the two holdings on the supplied board
FullBoardOutcome ==
    OrderIncrement(evaluate7Perfect(args.heroHole \o args.board, EmptyLookup).best,
                   evaluate7Perfect(args.villainHole \o args.board, EmptyLookup).best)

\* C6: calculateHandVsHandEquity on two holdings and a full board (nine
\* distinct cards) gives every trial the same outcome whatever the shuffle:
\* after k trials one counter is k and the other two are zero, on return
\* one counter is N, and the counter is the one the showdown of the
\* supplied cards decides, whatever N is.
C6_FullBoardIsDeterministic ==
    FullBoardCall =>
        /\ Counters = [k \in 1..3 |-> i * FullBoardOutcome[k]]
        /\ pc = "returned" =>
              <<ret.heroWin, ret.villainWin, ret.tie>> =
                  [k \in 1..3 |-> args.iterations * FullBoardOutcome[k]]

\* a full-board call has returned with every one of its trials won by hero,
\* after shuffles that differ
C6_Witness ==
    /\ FullBoardCall
    /\ pc = "returned"
    /\ args.iterations = MaxIterations
    /\ ret.heroWin = MaxIterations
    /\ trial.shuffled # removeUsed(FULL_DECK,
                            args.heroHole \o args.villainHole \o args.board)

\* the call was given the same card more than once across hero holding,
\* villain holding and board
DuplicateInputs ==
    \/ /\ op = "calculateHandVsHandEquity"
       /\ ~AllDistinct(args.heroHole \o args.villainHole \o args.board)
    \/ /\ op = "calculateHandEquity"
       /\ ~AllDistinct(args.heroHole \o args.board)

\* C7: an equity call whose inputs hold the same card more than once fails
\* before the first trial: it never runs a trial and never returns a result.
C7_DuplicateCardFailsFast ==
    DuplicateInputs => i = 0 /\ pc # "returned" /\ ~ret.returned

\* a holding of two distinct cards none of which is on the board
CleanHolding(hole, board) ==
    /\ Len(hole) = 2
    /\ AllDistinct(hole)
    /\ \A k \in 1..2 : ~IsUsed(board, hole[k])

\* the inputs card removal is stated for
RemovalInputs ==
    /\ Len(args.board) <= 5
    /\ AllDistinct(args.board)
    /\ CASE op = "calculateHandVsHandEquity" ->
              CleanHolding(args.heroHole, args.board)
              /\ CleanHolding(args.villainHole, args.board)
         [] op = "calculateHandEquity" ->
              CleanHolding(args.heroHole, args.board)
         [] op = "equityRangeVsRange" ->
              /\ \A k \in 1..Len(args.heroRange) :
                     CleanHolding(args.heroRange[k], args.board)
              /\ \A k \in 1..Len(args.villainRange) :
                     CleanHolding(args.villainRange[k], args.board)
              /\ args.deck = FULL_DECK

\* the cards of the shuffled deck left for the run-out: all of it, or what
\* follows villain's two cards when villain is drawn from the deck
RunOutDeck ==
    IF op = "calculateHandEquity"
    THEN SubSeq(trial.shuffled, 3, Len(trial.shuffled))
    ELSE trial.shuffled

\* C10: in every trial on such inputs the completed board has five cards,
\* the run-out is the first 5 - |board| cards of the shuffled remaining deck
\* appended after the revealed board, and the nine cards in play are
\* pairwise distinct.
C10_CardRemoval ==
    TrialRan /\ RemovalInputs =>
        /\ Len(trial.fullBoard) = 5
        /\ trial.fullBoard =
              args.board \o SubSeq(RunOutDeck, 1, 5 - Len(args.board))
        /\ AllDistinct(trial.hero \o trial.villain \o trial.fullBoard)


====
